---- MODULE Spec2Model ----
(***************************************************************************)
(* The jsdelivr asset store of plugins/jsdelivr/src/index.ts:              *)
(* JsdelivrAssets.upload / createTask on the callers' side, the polling    *)
(* loop start / mainLoop / checkout / getBranch / getTasks on the other,   *)
(* the 'connect' and 'disconnect' handlers that start and stop the loop.   *)
(*                                                                         *)
(* Every `await` of the source is a suspension point: the code between two *)
(* awaits is one action.  The metadata store, the scratch file system and  *)
(* git are the environment: each of their operations succeeds or throws.   *)
(***************************************************************************)
EXTENDS Integers, Sequences, FiniteSets, TLC

\* ------------------------------------------------------------- bounds
\* number of external events of a run: upload() calls and 'connect' events
MaxEvents == 4

\* config.maxBranchSize (scaled down from 50 * 1024 * 1024)
maxBranchSize == 3

Calls == 1..MaxEvents
Loops == 1..MaxEvents

\* The contents that callers upload, named by their sha1 digest.
Hashes == {"a", "b", "c", "d"}

\* buffer.byteLength of each content; "d" is larger than a whole branch
byteLength(h) ==
    CASE h = "a" -> 2 [] h = "b" -> 2 [] h = "d" -> maxBranchSize + 1 [] OTHER -> 1

VARIABLES
    appUp,          \* the host application is between 'connect' and 'disconnect'
    nconn,          \* 'connect' events so far; each runs its own handler
    isActive,       \* JsdelivrAssets.isActive
    lpc,            \* position of each connect handler / start() loop
    lres,           \* mainLoop's local `branch` (the Branch checkout returned)
    ltasks,         \* mainLoop's local `tasks` (the drained batch)
    taskQueue,      \* JsdelivrAssets.taskQueue: task ids, front first
    taskMap,        \* JsdelivrAssets.taskMap: hash -> task id, 0 = no entry
    task,           \* the Task objects, by id (the id of the creating call);
                    \* pushed and seq are history, not fields of the source
    cpc,            \* position of each upload() call
    chash,          \* its content hash
    cres,           \* what its promise settled with
    db,             \* the rows of table 'jsdelivr'
    gitDir,         \* the repository directory has its .git
    head,           \* git: the branch the working copy is on (0: none yet)
    localBranches,  \* git: branches that have a commit in the local repository
    lastPush,       \* history: the branch of the last batch pushed to origin
    failed          \* history: a repository, store or file operation has thrown

vars == <<appUp, nconn, isActive, lpc, lres, ltasks, taskQueue, taskMap, task,
          cpc, chash, cres, db, gitDir, head, localBranches, lastPush, failed>>

loopVars == <<lpc, lres, ltasks>>
callVars == <<cpc, chash, cres>>
gitVars == <<gitDir, head, localBranches, lastPush>>
lifeVars == <<appUp, nconn, isActive>>

NoTask == [hash |-> "", branch |-> 0, resolvers |-> <<>>, rejectors |-> <<>>,
           pushed |-> 0, seq |-> 0]
NoResult == [ok |-> FALSE, url |-> <<>>, err |-> ""]
NoBranch == [branch |-> 0, size |-> 0]
NoFile == [id |-> 0, hash |-> "", size |-> 0, branch |-> 0]

\* ------------------------------------------------------------- helpers

Range(s) == {s[i] : i \in 1..Len(s)}

RECURSIVE SumSizes(_)
SumSizes(rows) ==
    IF rows = {} THEN 0
    ELSE LET r == CHOOSE x \in rows : TRUE
         IN  r.size + SumSizes(rows \ {r})

\* database.aggregate('jsdelivr', { size: { $sum: 'size' } }, { branch })
aggregate(rows, b) == SumSizes({r \in rows : r.branch = b})

\* database.get('jsdelivr', query): the rows a query without an order may
\* return first; NoFile when nothing matches ([file] is undefined).
FirstOf(rows) == IF rows = {} THEN {NoFile} ELSE rows

\* the digits of Number.prototype.toString(radix)
Digits ==
    <<"0", "1", "2", "3", "4", "5", "6", "7", "8", "9", "a", "b", "c", "d",
      "e", "f", "g", "h", "i", "j", "k", "l", "m", "n", "o", "p", "q", "r",
      "s", "t", "u", "v", "w", "x", "y", "z">>

\* n.toString(radix) of a natural number, as the sequence of its characters
RECURSIVE toString(_, _)
toString(n, radix) ==
    IF n < radix THEN <<Digits[n + 1]>>
    ELSE Append(toString(n \div radix, radix), Digits[(n % radix) + 1])

\* String.prototype.padStart(targetLength, padString)
RECURSIVE padStart(_, _, _)
padStart(str, targetLength, padString) ==
    IF Len(str) >= targetLength THEN str
    ELSE padStart(<<padString>> \o str, targetLength, padString)

\* toBranchName(id): padStart(8) pads with its default, the space
toBranchName(id) == padStart(toString(id, 36), 8, " ")

\* toPublicUrl: the @<branch> and the <hash> components of the URL; the
\* template literal renders the number file.branch in decimal
toPublicUrl(file) == <<toString(file.branch, 10), file.hash>>

\* Task.size
TaskSize(t) == byteLength(task[t].hash)

\* getTasks: the number of tasks the while loop shifts off the queue
RECURSIVE getTasksCount(_, _, _)
getTasksCount(q, size, available) ==
    IF q = <<>> THEN 0
    ELSE LET s == size + TaskSize(Head(q))
         IN  IF s > available THEN 0
             ELSE 1 + getTasksCount(Tail(q), s, available)

\* getTasks that goes on past a task that does not fit and takes every later
\* task that does.
RECURSIVE firstFit(_, _, _)
firstFit(q, size, available) ==
    IF q = <<>> THEN [tasks |-> <<>>, queue |-> <<>>]
    ELSE LET s == size + TaskSize(Head(q))
         IN  IF s > available
             THEN LET r == firstFit(Tail(q), size, available)
                  IN  [tasks |-> r.tasks, queue |-> <<Head(q)>> \o r.queue]
             ELSE LET r == firstFit(Tail(q), s, available)
                  IN  [tasks |-> <<Head(q)>> \o r.tasks, queue |-> r.queue]

getTasksSkipping(q, available) == firstFit(q, 0, available)

\* getTasks that takes the head of the queue whatever its size when nothing
\* else fits.
getTasksAtLeastOne(q, available) ==
    LET n == getTasksCount(q, 0, available)
        k == IF n = 0 /\ q # <<>> THEN 1 ELSE n
    IN  [tasks |-> SubSeq(q, 1, k), queue |-> SubSeq(q, k + 1, Len(q))]

getTasks(q, available) ==
    LET n == getTasksCount(q, 0, available)
    IN  [tasks |-> SubSeq(q, 1, n), queue |-> SubSeq(q, n + 1, Len(q))]

\* ------------------------------------------------------------- Init

Init ==
    /\ appUp = FALSE
    /\ nconn = 0
    /\ isActive = FALSE
    /\ lpc = [l \in Loops |-> "none"]
    /\ lres = [l \in Loops |-> NoBranch]
    /\ ltasks = [l \in Loops |-> <<>>]
    /\ taskQueue = <<>>
    /\ taskMap = [h \in Hashes |-> 0]
    /\ task = [c \in Calls |-> NoTask]
    /\ cpc = [c \in Calls |-> "idle"]
    /\ chash = [c \in Calls |-> ""]
    /\ cres = [c \in Calls |-> NoResult]
    /\ db = {}
    /\ gitDir = FALSE
    /\ head = 0
    /\ localBranches = {}
    /\ lastPush = 0
    /\ failed = FALSE

\* the external events so far
events == nconn + Cardinality({c \in Calls : cpc[c] # "idle"})

\* ------------------------------------------------------------- callers

\* history: the place of a new Task in the order of the taskQueue.push calls
nextSeq == 1 + Cardinality({t \in Calls : task[t] # NoTask})

\* createTask without the index lookup: every call makes its own Task.
createTaskUnindexed(c, h) ==
    [queue |-> Append(taskQueue, c),
     map   |-> [taskMap EXCEPT ![h] = c],
     tasks |-> [task EXCEPT ![c] = [NoTask EXCEPT !.hash = h,
                                                  !.seq = nextSeq,
                                                  !.resolvers = <<c>>,
                                                  !.rejectors = <<c>>]]]

\* createTask that registers the rejector with a new Task only.
createTaskNoRejector(c, h) ==
    LET existing == taskMap[h]
        t == IF existing = 0 THEN c ELSE existing
        base == IF existing = 0
                THEN [task EXCEPT ![c] = [NoTask EXCEPT !.hash = h, !.seq = nextSeq,
                                                         !.rejectors = <<c>>]]
                ELSE task
    IN  [queue |-> IF existing = 0 THEN Append(taskQueue, c) ELSE taskQueue,
         map   |-> IF existing = 0 THEN [taskMap EXCEPT ![h] = c] ELSE taskMap,
         tasks |-> [base EXCEPT ![t].resolvers = Append(@, c)]]

\* createTask(file): the Promise executor. Returns the queue, the index and
\* the Task objects after call c has been attached to the Task of hash h.
createTask(c, h) ==
    LET existing == taskMap[h]
        t == IF existing = 0 THEN c ELSE existing
        base == IF existing = 0
                THEN [task EXCEPT ![c] = [NoTask EXCEPT !.hash = h, !.seq = nextSeq]]
                ELSE task
    IN  [queue |-> IF existing = 0 THEN Append(taskQueue, c) ELSE taskQueue,
         map   |-> IF existing = 0 THEN [taskMap EXCEPT ![h] = c] ELSE taskMap,
         tasks |-> [base EXCEPT ![t].resolvers = Append(@, c),
                                ![t].rejectors = Append(@, c)]]

\* upload without the lookup of the hash: every call goes on to writeFile.
UploadNoLookup(c, h) ==
    /\ cpc[c] = "idle"
    /\ events < MaxEvents
    /\ \A d \in Calls : d < c => cpc[d] # "idle"
    /\ h = "b" => \E d \in Calls : chash[d] = "a"
    /\ chash' = [chash EXCEPT ![c] = h]
    /\ cpc' = [cpc EXCEPT ![c] = "write"]
    /\ UNCHANGED <<cres, loopVars, lifeVars, gitVars, taskQueue, taskMap, task, db, failed>>

\* upload(url, name) as far as the answer of database.get('jsdelivr',
\* { hash }): a row for the hash returns its public URL; without one the call
\* goes on to getFileName when it was given no name, else to writeFile.
\* Calls are numbered in the order
\* they are made, and of the two contents of equal size "a" is the one
\* uploaded first.
Upload(c, h) ==
    /\ cpc[c] = "idle"
    /\ events < MaxEvents
    /\ \A d \in Calls : d < c => cpc[d] # "idle"
    /\ h = "b" => \E d \in Calls : chash[d] = "a"
    /\ chash' = [chash EXCEPT ![c] = h]
    /\ \E file \in FirstOf({r \in db : r.hash = h}) :
         IF file # NoFile
         THEN /\ cpc' = [cpc EXCEPT ![c] = "done"]
              /\ cres' = [cres EXCEPT ![c] = [ok |-> TRUE, url |-> toPublicUrl(file), err |-> ""]]
         ELSE /\ \E named \in BOOLEAN :
                   cpc' = [cpc EXCEPT ![c] = IF named THEN "write" ELSE "name"]
              /\ cres' = cres
    /\ UNCHANGED <<loopVars, lifeVars, gitVars, taskQueue, taskMap, task, db, failed>>

\* getFileName resolves with 'untitled.' + ext: upload goes on to writeFile.
GetFileName(c) ==
    /\ cpc[c] = "name"
    /\ cpc' = [cpc EXCEPT ![c] = "write"]
    /\ UNCHANGED <<chash, cres, loopVars, lifeVars, gitVars, taskQueue, taskMap, task,
                   db, failed>>

\* getFileName with a Task made all the same before the call rejects.
GetFileNameFailsQueued(c) ==
    /\ cpc[c] = "name"
    /\ LET r == createTask(c, chash[c])
       IN  /\ taskQueue' = r.queue
           /\ taskMap' = r.map
           /\ task' = r.tasks
    /\ cpc' = [cpc EXCEPT ![c] = "done"]
    /\ cres' = [cres EXCEPT ![c] = [ok |-> FALSE, url |-> <<>>, err |-> "name"]]
    /\ failed' = TRUE
    /\ UNCHANGED <<chash, loopVars, lifeVars, gitVars, db>>

\* getFileName rejects (fromBuffer knows no type for the buffer, or throws):
\* upload rejects before writeFile and createTask.
GetFileNameFails(c) ==
    /\ cpc[c] = "name"
    /\ cpc' = [cpc EXCEPT ![c] = "done"]
    /\ cres' = [cres EXCEPT ![c] = [ok |-> FALSE, url |-> <<>>, err |-> "name"]]
    /\ failed' = TRUE
    /\ UNCHANGED <<chash, loopVars, lifeVars, gitVars, taskQueue, taskMap, task, db>>

\* getAssetBuffer or database.get rejects: upload rejects with that error.
UploadGetFails(c, h) ==
    /\ cpc[c] = "idle"
    /\ events < MaxEvents
    /\ \A d \in Calls : d < c => cpc[d] # "idle"
    /\ h = "b" => \E d \in Calls : chash[d] = "a"
    /\ chash' = [chash EXCEPT ![c] = h]
    /\ cpc' = [cpc EXCEPT ![c] = "done"]
    /\ cres' = [cres EXCEPT ![c] = [ok |-> FALSE, url |-> <<>>, err |-> "get"]]
    /\ failed' = TRUE
    /\ UNCHANGED <<loopVars, lifeVars, gitVars, taskQueue, taskMap, task, db>>

\* writeFile resolves: createTask runs and the call waits for its Task.
UploadWrite(c) ==
    /\ cpc[c] = "write"
    /\ LET r == createTask(c, chash[c])
       IN  /\ taskQueue' = r.queue
           /\ taskMap' = r.map
           /\ task' = r.tasks
    /\ cpc' = [cpc EXCEPT ![c] = "waiting"]
    /\ UNCHANGED <<chash, cres, loopVars, lifeVars, gitVars, db, failed>>

\* writeFile rejects: upload rejects, nothing is queued.
UploadWriteFails(c) ==
    /\ cpc[c] = "write"
    /\ cpc' = [cpc EXCEPT ![c] = "done"]
    /\ cres' = [cres EXCEPT ![c] = [ok |-> FALSE, url |-> <<>>, err |-> "write"]]
    /\ failed' = TRUE
    /\ UNCHANGED <<chash, loopVars, lifeVars, gitVars, taskQueue, taskMap, task, db>>

\* ------------------------------------------------------------- main loop

\* mainLoop up to its first await: sleep on an empty queue, otherwise
\* checkout() -> getBranch() -> database.get.
mainLoopEntry == IF taskQueue = <<>> THEN "sleep" ELSE "get1"

\* start(): the while test, reached when the awaited mainLoop has returned or
\* thrown (the catch only logs).
Start(l) ==
    /\ lpc[l] = "while"
    /\ lpc' = [lpc EXCEPT ![l] = IF isActive THEN mainLoopEntry ELSE "stopped"]
    /\ UNCHANGED <<lres, ltasks, callVars, lifeVars, gitVars,
                   taskQueue, taskMap, task, db, failed>>

\* sleep(flushInterval) is over: mainLoop returns.
Sleep(l) ==
    /\ lpc[l] = "sleep"
    /\ lpc' = [lpc EXCEPT ![l] = "while"]
    /\ UNCHANGED <<lres, ltasks, callVars, lifeVars, gitVars,
                   taskQueue, taskMap, task, db, failed>>

\* getBranch once the limit-1 query has answered with `file`.
\* size -1 stands for "aggregate still to be awaited".
getBranch(file, forceNew) ==
    IF file = NoFile THEN [branch |-> 1, size |-> 0]
    ELSE IF forceNew THEN [branch |-> file.branch + 1, size |-> 0]
    ELSE [branch |-> file.branch, size |-> -1]

\* getBranch once the aggregate has answered with `size`.
getBranchSized(branch, size) ==
    IF size >= maxBranchSize
    THEN [branch |-> branch + 1, size |-> 0]
    ELSE [branch |-> branch, size |-> size]

\* database.get(..., { limit: 1 }) of getBranch resolves with any row.
GetBranchGet(l) ==
    /\ lpc[l] \in {"get1", "get2"}
    /\ \E file \in FirstOf(db) :
         LET res == getBranch(file, lpc[l] = "get2")
         IN  /\ lres' = [lres EXCEPT ![l] = res]
             /\ lpc' = [lpc EXCEPT ![l] =
                          IF res.size = -1 THEN "agg"
                          ELSE IF lpc[l] = "get1" THEN "co1" ELSE "co2"]
    /\ UNCHANGED <<ltasks, callVars, lifeVars, gitVars,
                   taskQueue, taskMap, task, db, failed>>

\* database.aggregate of getBranch resolves.
GetBranchAggregate(l) ==
    /\ lpc[l] = "agg"
    /\ lres' = [lres EXCEPT ![l] = getBranchSized(@.branch, aggregate(db, @.branch))]
    /\ lpc' = [lpc EXCEPT ![l] = "co1"]
    /\ UNCHANGED <<ltasks, callVars, lifeVars, gitVars,
                   taskQueue, taskMap, task, db, failed>>

\* can the git commands of checkout() succeed for Branch res?
\*   !res.size: git checkout --orphan <name> refuses a name that is a branch
\*   otherwise: git checkout <name> -f needs the branch
gitCheckoutOk(res) ==
    IF res.size = 0 THEN res.branch \notin localBranches
                    ELSE res.branch \in localBranches

\* checkout() throws and start() does not catch: the loop ends.
CheckoutFailsUncaught(l) ==
    /\ lpc[l] \in {"get1", "get2", "agg", "co1", "co2"}
    /\ lpc' = [lpc EXCEPT ![l] = "stopped"]
    /\ lres' = [lres EXCEPT ![l] = NoBranch]
    /\ failed' = TRUE
    /\ UNCHANGED <<ltasks, callVars, lifeVars, gitVars,
                   taskQueue, taskMap, task, db>>

\* checkout() throws and the tasks waiting in the queue are given up.
CheckoutFailsDropsQueue(l) ==
    /\ lpc[l] \in {"get1", "get2", "agg", "co1", "co2"}
    /\ lpc' = [lpc EXCEPT ![l] = "while"]
    /\ lres' = [lres EXCEPT ![l] = NoBranch]
    /\ taskQueue' = <<>>
    /\ failed' = TRUE
    /\ UNCHANGED <<ltasks, callVars, lifeVars, gitVars, taskMap, task, db>>

\* A store or git operation of checkout() throws: mainLoop throws before any
\* task is drained and start() logs the failure.
CheckoutFails(l) ==
    /\ lpc[l] \in {"get1", "get2", "agg", "co1", "co2"}
    /\ lpc' = [lpc EXCEPT ![l] = "while"]
    /\ lres' = [lres EXCEPT ![l] = NoBranch]
    /\ failed' = TRUE
    /\ UNCHANGED <<ltasks, callVars, lifeVars, gitVars,
                   taskQueue, taskMap, task, db>>

\* git checkout --orphan went through and git rm -rf . throws.
CheckoutRmFails(l) ==
    /\ lpc[l] \in {"co1", "co2"}
    /\ lres[l].size = 0
    /\ gitCheckoutOk(lres[l])
    /\ head' = lres[l].branch
    /\ lpc' = [lpc EXCEPT ![l] = "while"]
    /\ lres' = [lres EXCEPT ![l] = NoBranch]
    /\ failed' = TRUE
    /\ UNCHANGED <<ltasks, callVars, lifeVars, gitDir, localBranches, lastPush,
                   taskQueue, taskMap, task, db>>

\* the batch mainLoop takes after checkout() has returned res; first = the
\* first checkout of the iteration (capacity left on the branch), otherwise
\* the forced new branch (full capacity).
fill(res, first) ==
    getTasks(taskQueue, IF first THEN maxBranchSize - res.size ELSE maxBranchSize)

\* checkout() resolves; a head task that fits no branch is taken off the
\* queue.  Otherwise as Checkout:
\* getTasks, then checkout(true) when nothing fits, return when nothing fits
\* a new branch either, else task.branch is set and the renames are started.
CheckoutDropsHead(l) ==
    /\ lpc[l] \in {"co1", "co2"}
    /\ gitCheckoutOk(lres[l])
    /\ head' = lres[l].branch
    /\ LET g == fill(lres[l], lpc[l] = "co1")
       IN  IF g.tasks # <<>>
           THEN /\ ltasks' = [ltasks EXCEPT ![l] = g.tasks]
                /\ taskQueue' = g.queue
                /\ task' = [t \in Calls |->
                              IF t \in Range(g.tasks)
                              THEN [task[t] EXCEPT !.branch = lres[l].branch]
                              ELSE task[t]]
                /\ lpc' = [lpc EXCEPT ![l] = "move"]
                /\ lres' = lres
           ELSE /\ lpc' = [lpc EXCEPT ![l] = IF lpc[l] = "co1" THEN "get2" ELSE "while"]
                /\ lres' = IF lpc[l] = "co1" THEN lres ELSE [lres EXCEPT ![l] = NoBranch]
                /\ taskQueue' = IF lpc[l] = "co1" THEN taskQueue ELSE Tail(taskQueue)
                /\ UNCHANGED <<ltasks, task>>
    /\ UNCHANGED <<callVars, lifeVars, gitDir, localBranches, lastPush, taskMap, db, failed>>

\* The git commands of checkout() resolve; mainLoop goes on synchronously:
\* getTasks, then checkout(true) when nothing fits, return when nothing fits
\* a new branch either, else task.branch is set and the renames are started.
Checkout(l) ==
    /\ lpc[l] \in {"co1", "co2"}
    /\ gitCheckoutOk(lres[l])
    /\ head' = lres[l].branch
    /\ LET g == fill(lres[l], lpc[l] = "co1")
       IN  IF g.tasks # <<>>
           THEN /\ ltasks' = [ltasks EXCEPT ![l] = g.tasks]
                /\ taskQueue' = g.queue
                /\ task' = [t \in Calls |->
                              IF t \in Range(g.tasks)
                              THEN [task[t] EXCEPT !.branch = lres[l].branch]
                              ELSE task[t]]
                /\ lpc' = [lpc EXCEPT ![l] = "move"]
                /\ lres' = lres
           ELSE /\ lpc' = [lpc EXCEPT ![l] = IF lpc[l] = "co1" THEN "get2" ELSE "while"]
                /\ lres' = IF lpc[l] = "co1" THEN lres ELSE [lres EXCEPT ![l] = NoBranch]
                /\ UNCHANGED <<ltasks, taskQueue, task>>
    /\ UNCHANGED <<callVars, lifeVars, gitDir, localBranches, lastPush, taskMap, db, failed>>

\* ------------------------------------------------------------- settlement

\* A resolver or rejector of the Promise of call c is called: a pending
\* promise settles, a settled one stays as it is.
settle(results, c, value) ==
    IF results[c] = NoResult THEN [results EXCEPT ![c] = value] ELSE results

RECURSIVE settleEach(_, _, _)
settleEach(results, waiters, value) ==
    IF waiters = <<>> THEN results
    ELSE settleEach(settle(results, Head(waiters), value), Tail(waiters), value)

\* Task.resolve(): every resolver gets the public URL of the task
TaskResolve(results, t) ==
    settleEach(results, task[t].resolvers,
               [ok |-> TRUE, url |-> toPublicUrl(task[t]), err |-> ""])

\* Task.reject(e): every rejector gets e
TaskReject(results, t, e) ==
    settleEach(results, task[t].rejectors, [ok |-> FALSE, url |-> <<>>, err |-> e])

\* for (const task of tasks) task.resolve()
RECURSIVE resolveTasks(_, _)
resolveTasks(results, ts) ==
    IF ts = <<>> THEN results
    ELSE resolveTasks(TaskResolve(results, Head(ts)), Tail(ts))

\* tasks.map(...) cut short: only the first task of the batch is rejected.
rejectFirstTask(results, ts, e) ==
    IF ts = <<>> THEN results ELSE TaskReject(results, Head(ts), e)

\* tasks.map(task => task.reject(e))
RECURSIVE rejectTasks(_, _, _)
rejectTasks(results, ts, e) ==
    IF ts = <<>> THEN results
    ELSE rejectTasks(TaskReject(results, Head(ts), e), Tail(ts), e)

\* the upload() calls whose promise has settled
settledPc(results) ==
    [c \in Calls |-> IF results[c] # NoResult /\ cpc[c] = "waiting" THEN "done" ELSE cpc[c]]

\* a finally block that clears the whole index
deleteTasksAll(map, ts) == [h \in Hashes |-> 0]

\* finally: for (const file of tasks) this.taskMap.delete(file.hash)
deleteTasks(map, ts) ==
    [h \in Hashes |-> IF \E t \in Range(ts) : task[t].hash = h THEN 0 ELSE map[h]]

\* database.upsert('jsdelivr', tasks): one row per task of the batch
upsert(rows, ts) ==
    rows \cup {[id |-> t, hash |-> task[t].hash, size |-> TaskSize(t),
                branch |-> task[t].branch] : t \in Range(ts)}

\* the catch block of mainLoop: every task of the batch is rejected with e,
\* then Promise.all is awaited.
Catch(l, e) ==
    /\ cres' = rejectTasks(cres, ltasks[l], e)
    /\ cpc' = settledPc(cres')
    /\ lpc' = [lpc EXCEPT ![l] = "reject"]
    /\ failed' = TRUE

\* the renames resolve and the rows are written without commit and push.
MoveUnpushed(l) ==
    /\ lpc[l] = "move"
    /\ lpc' = [lpc EXCEPT ![l] = "upsert"]
    /\ UNCHANGED <<lres, ltasks, callVars, lifeVars, gitVars,
                   taskQueue, taskMap, task, db, failed>>

\* the renames resolve; git add / commit / push is started.
Move(l) ==
    /\ lpc[l] = "move"
    /\ lpc' = [lpc EXCEPT ![l] = "push"]
    /\ UNCHANGED <<lres, ltasks, callVars, lifeVars, gitVars,
                   taskQueue, taskMap, task, db, failed>>

\* a rename throws
MoveFails(l) ==
    /\ lpc[l] = "move"
    /\ Catch(l, "rename")
    /\ UNCHANGED <<lres, ltasks, chash, lifeVars, gitVars, taskQueue, taskMap, task, db>>

\* add, commit and push resolve: the commit is on the checked-out branch and
\* the branch named after branch.branch is on origin.
CommitPush(l) ==
    /\ lpc[l] = "push"
    /\ lres[l].branch \in localBranches \cup {head}
    /\ localBranches' = localBranches \cup {head}
    /\ lastPush' = lres[l].branch
    /\ task' = [t \in Calls |->
                  IF t \in Range(ltasks[l])
                  THEN [task[t] EXCEPT !.pushed = lres[l].branch]
                  ELSE task[t]]
    /\ lpc' = [lpc EXCEPT ![l] = "upsert"]
    /\ UNCHANGED <<lres, ltasks, callVars, lifeVars, gitDir, head,
                   taskQueue, taskMap, db, failed>>

\* git add or git commit throws
CommitFails(l) ==
    /\ lpc[l] = "push"
    /\ Catch(l, "commit")
    /\ UNCHANGED <<lres, ltasks, chash, lifeVars, gitVars, taskQueue, taskMap, task, db>>

\* the commit is made and git push throws
PushFails(l) ==
    /\ lpc[l] = "push"
    /\ localBranches' = localBranches \cup {head}
    /\ Catch(l, "push")
    /\ UNCHANGED <<lres, ltasks, chash, lifeVars, gitDir, head, lastPush, taskQueue, taskMap, task, db>>

\* Upsert with the store write left out: the waiters are resolved although
\* no row has been written.
UpsertUnwritten(l) ==
    /\ lpc[l] = "upsert"
    /\ cres' = resolveTasks(cres, ltasks[l])
    /\ cpc' = settledPc(cres')
    /\ taskMap' = deleteTasks(taskMap, ltasks[l])
    /\ lpc' = [lpc EXCEPT ![l] = "while"]
    /\ lres' = [lres EXCEPT ![l] = NoBranch]
    /\ ltasks' = [ltasks EXCEPT ![l] = <<>>]
    /\ UNCHANGED <<chash, lifeVars, gitVars, taskQueue, task, db, failed>>

\* upsert resolves: the waiters are resolved, the finally block drops the
\* index entries and mainLoop returns.
Upsert(l) ==
    /\ lpc[l] = "upsert"
    /\ db' = upsert(db, ltasks[l])
    /\ cres' = resolveTasks(cres, ltasks[l])
    /\ cpc' = settledPc(cres')
    /\ taskMap' = deleteTasks(taskMap, ltasks[l])
    /\ lpc' = [lpc EXCEPT ![l] = "while"]
    /\ lres' = [lres EXCEPT ![l] = NoBranch]
    /\ ltasks' = [ltasks EXCEPT ![l] = <<>>]
    /\ UNCHANGED <<chash, lifeVars, gitVars, taskQueue, task, failed>>

\* upsert throws
UpsertFails(l) ==
    /\ lpc[l] = "upsert"
    /\ Catch(l, "upsert")
    /\ UNCHANGED <<lres, ltasks, chash, lifeVars, gitVars, taskQueue, taskMap, task, db>>

\* the end of a failed batch without the finally block: the index entries
\* stay.
FinallyKeepsIndex(l) ==
    /\ lpc[l] = "reject"
    /\ lpc' = [lpc EXCEPT ![l] = "while"]
    /\ lres' = [lres EXCEPT ![l] = NoBranch]
    /\ ltasks' = [ltasks EXCEPT ![l] = <<>>]
    /\ UNCHANGED <<callVars, lifeVars, gitVars, taskQueue, taskMap, task, db, failed>>

\* the Promise.all of the catch block resolves: the finally block drops the
\* index entries and mainLoop returns.
Finally(l) ==
    /\ lpc[l] = "reject"
    /\ taskMap' = deleteTasks(taskMap, ltasks[l])
    /\ lpc' = [lpc EXCEPT ![l] = "while"]
    /\ lres' = [lres EXCEPT ![l] = NoBranch]
    /\ ltasks' = [ltasks EXCEPT ![l] = <<>>]
    /\ UNCHANGED <<callVars, lifeVars, gitVars, taskQueue, task, db, failed>>

\* ------------------------------------------------------------- life cycle

\* the host emits 'connect': the handler awaits initRepo().
Connect ==
    /\ ~appUp
    /\ events < MaxEvents
    /\ appUp' = TRUE
    /\ nconn' = nconn + 1
    /\ lpc' = [lpc EXCEPT ![nconn + 1] = "init"]
    /\ UNCHANGED <<isActive, lres, ltasks, callVars, gitVars,
                   taskQueue, taskMap, task, db, failed>>

\* initRepo() resolves, isActive = true and start() runs up to its first
\* await.  Where .git is missing, initRepo has made the repository and run
\* checkout(false, true).
InitRepo(l) ==
    /\ lpc[l] = "init"
    /\ IF gitDir
       THEN UNCHANGED <<gitDir, head>>
       ELSE /\ gitDir' = TRUE
            /\ \E file \in FirstOf(db) :
                 LET got == getBranch(file, FALSE)
                     res == IF got.size = -1
                            THEN getBranchSized(got.branch, aggregate(db, got.branch))
                            ELSE got
                 IN  /\ gitCheckoutOk(res)
                     /\ head' = res.branch
    /\ isActive' = TRUE
    /\ lpc' = [lpc EXCEPT ![l] = mainLoopEntry]
    /\ UNCHANGED <<appUp, nconn, lres, ltasks, callVars, localBranches, lastPush,
                   taskQueue, taskMap, task, db, failed>>

\* initRepo() throws, before or after git init: the handler ends, the loop
\* is not started.
InitRepoFails(l) ==
    /\ lpc[l] = "init"
    /\ lpc' = [lpc EXCEPT ![l] = "stopped"]
    /\ gitDir' \in {gitDir, TRUE}
    /\ failed' = TRUE
    /\ UNCHANGED <<lifeVars, lres, ltasks, callVars, head, localBranches, lastPush,
                   taskQueue, taskMap, task, db>>

\* the host emits 'disconnect'.
Disconnect ==
    /\ appUp
    /\ appUp' = FALSE
    /\ isActive' = FALSE
    /\ UNCHANGED <<nconn, loopVars, callVars, gitVars,
                   taskQueue, taskMap, task, db, failed>>

Next ==
    \/ \E c \in Calls, h \in Hashes : Upload(c, h)
    \/ \E c \in Calls, h \in Hashes : UploadGetFails(c, h)
    \/ \E c \in Calls : GetFileName(c)
    \/ \E c \in Calls : GetFileNameFails(c)
    \/ \E c \in Calls : UploadWrite(c)
    \/ \E c \in Calls : UploadWriteFails(c)
    \/ Connect
    \/ Disconnect
    \/ \E l \in Loops : InitRepo(l)
    \/ \E l \in Loops : InitRepoFails(l)
    \/ \E l \in Loops : Start(l)
    \/ \E l \in Loops : Sleep(l)
    \/ \E l \in Loops : GetBranchGet(l)
    \/ \E l \in Loops : GetBranchAggregate(l)
    \/ \E l \in Loops : CheckoutFails(l)
    \/ \E l \in Loops : CheckoutRmFails(l)
    \/ \E l \in Loops : Checkout(l)
    \/ \E l \in Loops : Move(l)
    \/ \E l \in Loops : MoveFails(l)
    \/ \E l \in Loops : CommitPush(l)
    \/ \E l \in Loops : CommitFails(l)
    \/ \E l \in Loops : PushFails(l)
    \/ \E l \in Loops : Upsert(l)
    \/ \E l \in Loops : UpsertFails(l)
    \/ \E l \in Loops : Finally(l)

Spec == Init /\ [][Next]_vars

\* ------------------------------------------------------------- progress

\* a step of the connect handler / start() loop l: the operation it awaits
\* resolves or throws and the loop runs on to its next await
LoopStep(l) ==
    \/ InitRepo(l) \/ InitRepoFails(l)
    \/ Start(l) \/ Sleep(l)
    \/ GetBranchGet(l) \/ GetBranchAggregate(l)
    \/ CheckoutFails(l) \/ CheckoutRmFails(l) \/ Checkout(l)
    \/ Move(l) \/ MoveFails(l)
    \/ CommitPush(l) \/ CommitFails(l) \/ PushFails(l)
    \/ Upsert(l) \/ UpsertFails(l)
    \/ Finally(l)

\* the steps of a store that, once connected, is not disconnected
LiveNext ==
    \/ \E c \in Calls, h \in Hashes : Upload(c, h)
    \/ \E c \in Calls, h \in Hashes : UploadGetFails(c, h)
    \/ \E c \in Calls : GetFileName(c)
    \/ \E c \in Calls : GetFileNameFails(c)
    \/ \E c \in Calls : UploadWrite(c)
    \/ \E c \in Calls : UploadWriteFails(c)
    \/ Connect
    \/ \E l \in Loops : LoopStep(l)

\* Every operation the loop awaits settles, and sleep(flushInterval) ends:
\* a loop that can take a step takes one.
FairSpec == Init /\ [][LiveNext]_vars /\ \A l \in Loops : WF_vars(LoopStep(l))

\* ------------------------------------------------------------- claims

\* the tasks a loop has drained and not yet let go of
inFlight == UNION {Range(ltasks[l]) : l \in Loops}

\* the tasks that are queued or in flight
liveTasks == Range(taskQueue) \cup inFlight

\* the upload() calls attached to task t
waitersOf(t) == Range(task[t].resolvers)

\* C1, in every state: no two queued or in-flight tasks have the same hash,
\* and no task is in the queue twice.
C1OnePerHash ==
    /\ \A t1, t2 \in liveTasks : task[t1].hash = task[t2].hash => t1 = t2
    /\ \A i, j \in 1..Len(taskQueue) : taskQueue[i] = taskQueue[j] => i = j

\* C1, in every step: createTask for a hash that is in the index appends the
\* caller's resolver and rejector to the indexed Task, and to no other, and
\* the queue is left as it was.
C1Attach ==
    \A c \in Calls :
        (cpc[c] = "write" /\ cpc'[c] = "waiting" /\ taskMap[chash[c]] # 0) =>
            LET t == taskMap[chash[c]]
            IN  /\ taskQueue' = taskQueue
                /\ taskMap' = taskMap
                /\ task' = [task EXCEPT ![t].resolvers = Append(@, c),
                                        ![t].rejectors = Append(@, c)]

\* C1: at most one Task per content hash among the queued and in-flight
\* tasks; createTask for an indexed hash adds one waiter to the existing Task
\* and leaves the queue length unchanged.
C1Theorem == []C1OnePerHash /\ [][C1Attach]_vars

\* C1's case: a second call has been attached to a Task that is still queued
\* or in flight.
C1Witness == \E t \in liveTasks : Len(task[t].resolvers) >= 2

\* the rows of the store for hash h
rowsOf(h) == {r \in db : r.hash = h}

\* the Tasks of hash h whose batch has been pushed: one commit each
commitsOf(h) == {t \in Calls : task[t].hash = h /\ task[t].pushed # 0}

\* C2: as long as no repository, store or file operation has failed, any two
\* upload calls of the same content that have returned have returned the same
\* URL, a content that an upload has returned a URL for has exactly one row,
\* and no content is in more than one commit.
C2Claim ==
    ~failed =>
        /\ \A c1, c2 \in Calls :
              (cres[c1].ok /\ cres[c2].ok /\ chash[c1] = chash[c2]) =>
                  cres[c1].url = cres[c2].url
        /\ \A c \in Calls : cres[c].ok => Cardinality(rowsOf(chash[c])) = 1
        /\ \A h \in Hashes : Cardinality(commitsOf(h)) <= 1

\* C3, in every state: an upload that has been resolved with a URL has a row
\* for its hash with the branch of that URL, written for a Task whose batch
\* was pushed to that branch; a resolved waiter's own Task has been pushed and
\* has its row.
C3Theorem ==
    /\ \A c \in Calls :
          cres[c].ok =>
              \E r \in rowsOf(chash[c]) :
                  /\ toPublicUrl(r) = cres[c].url
                  /\ task[r.id].pushed = r.branch
    /\ \A t \in Calls : \A c \in waitersOf(t) :
          cres[c].ok =>
              /\ task[t].pushed # 0
              /\ \E r \in db : r.id = t /\ r.branch = task[t].pushed

\* C3's case: a waiter of a Task has been resolved.
C3Witness == \E t \in Calls : \E c \in waitersOf(t) : cres[c].ok

\* a failure of the move, of the commit or of the push
BatchErrors == {"rename", "commit", "push"}

Rejected(e) == [ok |-> FALSE, url |-> <<>>, err |-> e]

\* C4, in every step: when the move, the commit or the push of a batch throws,
\* every waiter of every task of the batch is rejected with the one error
\* thrown and the batch has no row.
C4Step ==
    \A l \in Loops :
        (lpc[l] \in {"move", "push"} /\ lpc'[l] = "reject") =>
            \E e \in BatchErrors :
                \A t \in Range(ltasks[l]) :
                    /\ \A c \in waitersOf(t) : cres'[c] = Rejected(e)
                    /\ ~ \E r \in db' : r.id = t

\* C4, in every state: a Task that had a waiter rejected for such a failure
\* has no resolved waiter and never gets a row.
C4Inv ==
    \A t \in Calls :
        (\E c \in waitersOf(t) : cres[c].err \in BatchErrors) =>
            /\ \A c \in waitersOf(t) : ~cres[c].ok
            /\ ~ \E r \in db : r.id = t

RECURSIVE prefixSize(_, _)
prefixSize(q, k) == IF k = 0 THEN 0 ELSE prefixSize(q, k - 1) + TaskSize(q[k])

\* the length of the longest prefix of q whose sizes add up to at most
\* available
longestPrefix(q, available) ==
    CHOOSE k \in 0..Len(q) :
        /\ prefixSize(q, k) <= available
        /\ \A j \in (k + 1)..Len(q) : prefixSize(q, j) > available

\* loop l leaves checkout() in this step and calls getTasks: it goes on to
\* the move or to checkout(true), or returns with nothing having thrown
drains(l) ==
    /\ lpc[l] \in {"co1", "co2"}
    /\ \/ lpc'[l] \in {"move", "get2"}
       \/ lpc'[l] = "while" /\ ~failed'

\* C5, in every step that calls getTasks(available): the batch is the longest
\* prefix of the queue whose sizes add up to at most available, in queue
\* order, and the queue keeps the rest in its order.
C5Step ==
    \A l \in Loops :
        drains(l) =>
            LET available == IF lpc[l] = "co1" THEN maxBranchSize - lres[l].size
                                               ELSE maxBranchSize
                n == longestPrefix(taskQueue, available)
            IN  /\ ltasks'[l] = SubSeq(taskQueue, 1, n)
                /\ taskQueue' = SubSeq(taskQueue, n + 1, Len(taskQueue))

C5Theorem == [][C5Step]_vars

\* C5's case: a batch has just been taken, and the task that is second in the
\* remaining queue would have fitted the capacity left while the first does
\* not: it was not taken from behind the first.
C5Witness ==
    \E l \in Loops :
        /\ lpc[l] = "move"
        /\ Len(ltasks[l]) = 1
        /\ Len(taskQueue) = 2
        /\ LET left == maxBranchSize - lres[l].size - TaskSize(ltasks[l][1])
           IN  /\ TaskSize(taskQueue[1]) > left
               /\ TaskSize(taskQueue[2]) <= left

Resolved(url) == [ok |-> TRUE, url |-> url, err |-> ""]

\* C6, in every step that settles a batch: after the upsert every waiter of
\* every task of the batch is resolved with the public URL of its task; after
\* a failure every waiter of every task of the batch is rejected with the one
\* error thrown.
C6Step ==
    \A l \in Loops :
        /\ (lpc[l] = "upsert" /\ lpc'[l] = "while") =>
              \A t \in Range(ltasks[l]) : \A c \in waitersOf(t) :
                  cres'[c] = Resolved(toPublicUrl(task[t]))
        /\ (lpc[l] \in {"move", "push", "upsert"} /\ lpc'[l] = "reject") =>
              \E e \in BatchErrors \cup {"upsert"} :
                  \A t \in Range(ltasks[l]) : \A c \in waitersOf(t) :
                      cres'[c] = Rejected(e)

\* C6, in every state: the waiters of a Task that have an outcome have the
\* same one, and no Task has a resolved and a rejected waiter.
C6Inv ==
    \A t \in Calls : \A c1, c2 \in waitersOf(t) :
        (cres[c1] # NoResult /\ cres[c2] # NoResult) => cres[c1] = cres[c2]

C7Settled ==
    \A l \in Loops :
        (lpc[l] \in {"upsert", "reject"} /\ lpc'[l] = "while") =>
            \A t \in Range(ltasks[l]) :
                /\ taskMap'[task[t].hash] = 0
                /\ t \notin Range(taskQueue')

\* C7, in every step: createTask for a hash without an index entry makes a
\* Task that did not exist, with the caller as its only waiter, indexes it
\* and puts it at the back of the queue.
C7Fresh ==
    \A c \in Calls :
        (cpc[c] = "write" /\ cpc'[c] = "waiting" /\ taskMap[chash[c]] = 0) =>
            /\ task[c] = NoTask
            /\ task'[c] = [NoTask EXCEPT !.hash = chash[c], !.seq = nextSeq,
                                         !.resolvers = <<c>>, !.rejectors = <<c>>]
            /\ taskQueue' = Append(taskQueue, c)
            /\ taskMap' = [taskMap EXCEPT ![chash[c]] = c]

\* C7, in every state: the queue holds only tasks that were never drained,
\* none of whose waiters has an outcome.
C7NotRequeued ==
    \A t \in Range(taskQueue) :
        /\ task[t].branch = 0
        /\ \A c \in waitersOf(t) : cres[c] = NoResult

\* C7: a settled batch leaves the index and the queue for good, and a later
\* upload of one of its hashes that misses the store starts a new Task at the
\* back of the queue.
C7Theorem == []C7NotRequeued /\ [][C7Settled /\ C7Fresh]_vars

\* C7's case: a Task was rejected and dropped, and a later upload of its hash
\* has a new Task in the queue, behind another task.
C7Witness ==
    \E t1, t2 \in Calls :
        /\ t1 # t2
        /\ task[t1].hash = task[t2].hash
        /\ \E c \in waitersOf(t1) : cres[c].err \in BatchErrors
        /\ t1 \notin liveTasks
        /\ Len(taskQueue) = 2
        /\ taskQueue[2] = t2
        /\ taskMap[task[t2].hash] = t2

Branches == 1..(MaxEvents + 1)

\* C8: in every state, and so after every batch commit, the sizes of the
\* durable records of each branch add up to maxBranchSize at most.
C8Claim == \A b \in Branches : aggregate(db, b) <= maxBranchSize

\* a step in which loop l gets through the git commands of checkout() and
\* mainLoop goes on
checkedOut(l) == lpc[l] \in {"co1", "co2"} /\ lpc'[l] \in {"move", "get2"}

\* a step in which loop l commits and pushes its batch
committed(l) == lpc[l] = "push" /\ lpc'[l] = "upsert"

\* C9, in every step: the branch of a committed batch is not below the branch
\* of the batch committed before it; once a batch is committed, no checkout is
\* of a branch below it and no orphan checkout is of a branch with records.
C9Step ==
    \A l \in Loops :
        /\ committed(l) => lastPush' >= lastPush
        /\ (checkedOut(l) /\ lastPush # 0) =>
              /\ lres[l].branch >= lastPush
              /\ lres[l].size = 0 => aggregate(db, lres[l].branch) = 0

\* C9: branch ids of successive batches never decrease and no earlier or
\* populated branch is checked out anew, whichever row the limit-1 query of
\* getBranch returns.
C9Claim == [][C9Step]_vars

\* C10, in every step that commits a batch after an earlier commit to branch
\* p: when the records of p add up to maxBranchSize or more, the batch is on
\* the orphan branch p + 1 with starting size 0; when they add up to less and
\* the head task of the batch fits into the rest, the batch is on p.
C10Step ==
    \A l \in Loops :
        (committed(l) /\ lastPush # 0) =>
            LET p == lastPush
                size == aggregate(db, p)
            IN  /\ size >= maxBranchSize =>
                      lres[l] = [branch |-> p + 1, size |-> 0]
                /\ (size < maxBranchSize
                      /\ TaskSize(Head(ltasks[l])) <= maxBranchSize - size) =>
                      lres[l].branch = p

\* C10: a full branch is followed by the orphan branch with the next id, and a
\* batch whose head task fits stays on the current branch.
C10Claim == [][C10Step]_vars

\* the start() loops that have been started and have not left their while
running == {l \in Loops : lpc[l] \notin {"none", "init", "stopped"}}

\* C11: in every state at most one start() loop is running, whatever the
\* sequence of 'connect' and 'disconnect' events.
C11Claim == Cardinality(running) <= 1

\* C12, in every step: a running loop leaves its while only at the while test
\* with isActive false, so no step of an iteration, failing or not, ends it;
\* at the while test with isActive true it enters mainLoop again.
C12Step ==
    \A l \in Loops :
        /\ (l \in running /\ lpc'[l] = "stopped") =>
              (lpc[l] = "while" /\ ~isActive)
        /\ (lpc[l] = "while" /\ isActive /\ lpc'[l] # "while") =>
              lpc'[l] \in {"sleep", "get1"}

\* C12, in every state: while isActive is true a loop is running.
C12Inv == isActive => running # {}

\* C12: while the store is active the loop does not terminate, whichever step
\* of an iteration fails.
C12Theorem == []C12Inv /\ [][C12Step]_vars

\* C12's case: the one loop there is has had a batch fail and is in a later
\* iteration.
C12Witness ==
    /\ nconn = 1
    /\ isActive
    /\ \E c \in Calls : cres[c].err \in BatchErrors \cup {"upsert"}
    /\ lpc[1] \in {"sleep", "get1", "move"}

\* C13, in every step: mainLoop returns or throws to the while test of
\* start() only out of sleep(flushInterval) or with a batch settled (after
\* the upsert or after the catch block); an iteration is not begun with a
\* repository operation on an empty queue, and the sleep touches neither the
\* repository nor the queue.
C13Step ==
    \A l \in Loops :
        /\ (lpc[l] # "while" /\ lpc'[l] = "while") =>
              lpc[l] \in {"sleep", "upsert", "reject"}
        /\ (lpc[l] \in {"init", "while"} /\ lpc'[l] = "get1") => taskQueue # <<>>
        /\ (lpc[l] = "sleep" /\ lpc'[l] = "while") =>
              UNCHANGED <<gitVars, taskQueue, taskMap, db>>

\* C13: every iteration that settles no batch waits for the flush interval,
\* and an iteration on an empty queue performs no repository operation.
C13Claim == [][C13Step]_vars

\* C14, in every step: an upload whose lookup finds a row of its hash
\* returns the public URL of a row of that hash at once, and the queue, the
\* index, the Tasks with their waiters and the rows stay as they are; an
\* upload goes on to writeFile only when there is no row of its hash.
C14Step ==
    \A c \in Calls :
        /\ (cpc[c] = "idle" /\ cpc'[c] # "idle" /\ cres'[c].err = ""
              /\ \E r \in db : r.hash = chash'[c]) =>
              /\ cpc'[c] = "done"
              /\ \E r \in db : r.hash = chash'[c] /\ cres'[c] = Resolved(toPublicUrl(r))
              /\ UNCHANGED <<taskQueue, taskMap, task, db>>
        /\ (cpc[c] = "idle" /\ cpc'[c] = "write") =>
              ~ \E r \in db : r.hash = chash'[c]

\* C14: a dedup hit returns the record's URL and changes nothing.
C14Theorem == [][C14Step]_vars

\* C14's case: an upload has returned a URL without ever waiting on a Task,
\* while another task is queued.
C14Witness ==
    \E c \in Calls :
        /\ cres[c].ok
        /\ \A t \in Calls : c \notin waitersOf(t)
        /\ taskQueue # <<>>

\* a branch id as zero-padded base 36 of width 8
zeroPadded36(id) == padStart(toString(id, 36), 8, "0")

\* C15: for every row, the branch component of its public URL is the row's
\* branch id in zero-padded base 36 of width 8, and is the name of the branch
\* the batch of the row was pushed to.
C15Claim ==
    \A r \in db :
        /\ toPublicUrl(r)[1] = zeroPadded36(r.branch)
        /\ toPublicUrl(r)[1] = toBranchName(task[r.id].pushed)

\* loop l holds a drained batch that is not settled yet
unsettled(l) == lpc[l] \in {"move", "push", "upsert"}

\* a step in which the batch of loop l is settled, by resolve or by reject
settles(l) ==
    \/ lpc[l] = "upsert" /\ lpc'[l] = "while"
    \/ unsettled(l) /\ lpc'[l] = "reject"

\* the tasks of s are in the order they were enqueued in
inEnqueueOrder(s) ==
    \A i, j \in 1..Len(s) : i < j => task[s[i]].seq < task[s[j]].seq

\* C16, in every step: when a batch is settled, every task of another hash
\* that was enqueued before one of its tasks is in the batch or settled
\* already, neither queued nor in another unsettled batch; when the commit of
\* a batch is started, no batch drained before it is unsettled.
C16Step ==
    \A l \in Loops :
        /\ settles(l) =>
              \A t2 \in Range(ltasks[l]) : \A t1 \in Calls :
                  (task[t1] # NoTask /\ task[t1].seq < task[t2].seq
                     /\ task[t1].hash # task[t2].hash) =>
                      /\ t1 \notin Range(taskQueue)
                      /\ \A k \in Loops \ {l} :
                            unsettled(k) => t1 \notin Range(ltasks[k])
        /\ (lpc[l] = "move" /\ lpc'[l] = "push") =>
              \A k \in Loops \ {l} : unsettled(k) =>
                  \A t1 \in Range(ltasks[k]) : \A t2 \in Range(ltasks[l]) :
                      task[t1].seq > task[t2].seq

\* C16: tasks are committed in the order of their enqueueing, within a batch
\* and from batch to batch, and the batches one after the other.
C16Claim ==
    /\ [](inEnqueueOrder(taskQueue) /\ \A l \in Loops : inEnqueueOrder(ltasks[l]))
    /\ [][C16Step]_vars

\* what has to stay as it is when an iteration ends without a batch
frame == <<taskQueue, taskMap, task, db, cres, lastPush, localBranches>>

\* C17, in every step: when checkout() has returned and no task fits what is
\* left of the current branch, mainLoop goes on to checkout(true) with the
\* queue, the index, the Tasks and their waiters, the rows and origin
\* untouched; when checkout(true) has returned and no task fits a whole
\* branch, mainLoop returns with all of that untouched and without a batch.
C17Step ==
    \A l \in Loops :
        /\ (lpc[l] = "co1" /\ lpc'[l] # "co1" /\ fill(lres[l], TRUE).tasks = <<>>) =>
              /\ lpc'[l] \in {"get2", "while"}
              /\ ltasks'[l] = <<>>
              /\ UNCHANGED frame
        /\ (lpc[l] = "co2" /\ lpc'[l] # "co2" /\ fill(lres[l], FALSE).tasks = <<>>) =>
              /\ lpc'[l] = "while"
              /\ ltasks'[l] = <<>>
              /\ UNCHANGED frame

\* C17: an iteration in which nothing fits the current branch nor a new one
\* ends with nothing changed, nothing committed and nobody settled.
C17Theorem == [][C17Step]_vars

\* C17's case: with a first batch on branch 1, the one loop has checked out
\* the new branch 2 for a head task larger than a branch and has returned,
\* the task still queued.
C17Witness ==
    /\ nconn = 1
    /\ ~failed
    /\ lpc[1] = "while"
    /\ lastPush = 1
    /\ head = 2
    /\ taskQueue # <<>>
    /\ TaskSize(Head(taskQueue)) > maxBranchSize
    /\ cres[Head(taskQueue)] = NoResult

\* C18, in every step: when getFileName fails for a call, that call is
\* rejected and nothing else happens: the queue, the index, the Tasks with
\* their waiters and the rows are as before, and so is every other call.
C18Step ==
    \A c \in Calls :
        (cpc[c] = "name" /\ cpc'[c] = "done") =>
            /\ cres'[c] = Rejected("name")
            /\ UNCHANGED <<taskQueue, taskMap, task, db>>
            /\ \A d \in Calls \ {c} : cres'[d] = cres[d] /\ cpc'[d] = cpc[d]

\* C18, in every state: a call that failed in getFileName has made no Task
\* and waits on none.
C18Inv ==
    \A c \in Calls :
        cres[c].err = "name" =>
            /\ task[c] = NoTask
            /\ \A t \in Calls : c \notin waitersOf(t)

\* C18: a failed name inference fails its own upload call only.
C18Theorem == []C18Inv /\ [][C18Step]_vars

\* C18's case: a call has failed in getFileName while another call waits on
\* a queued Task and a third on a Task in flight.
C18Witness ==
    \E c \in Calls :
        /\ cres[c].err = "name"
        /\ taskQueue # <<>>
        /\ inFlight # {}

\* C19: in every state, a checkout() that is on the orphan path (getBranch
\* has returned size 0, git checkout --orphan and git rm are under way) is
\* for a branch that no row is assigned to; for a branch with rows checkout()
\* is on the existing-branch path.
C19Claim ==
    \A l \in Loops :
        (lpc[l] \in {"co1", "co2"} /\ lres[l].size = 0) =>
            ~ \E r \in db : r.branch = lres[l].branch

\* C20, in every step: no row is removed or changed; a row that is added is
\* the row of a task of a batch whose push has resolved and whose upsert is
\* awaited, its branch is the branch that batch was pushed to, and it takes
\* the place of no row.
C20Step ==
    /\ db \subseteq db'
    /\ \A r \in db' \ db :
          /\ \A q \in db : q.id # r.id
          /\ r.branch # 0
          /\ \E l \in Loops :
                /\ lpc[l] = "upsert"
                /\ r.id \in Range(ltasks[l])
                /\ task[r.id].pushed = r.branch
                /\ lres[l].branch = r.branch
                /\ r.hash = task[r.id].hash

\* C20: rows are written after the push of their batch only, with the branch
\* of that push, and are never changed or removed afterwards.
C20Theorem == [][C20Step]_vars

\* C20's case: a row written by an earlier batch is there, unchanged, after a
\* later batch has written its row on another branch, and an upload of its
\* hash has been answered out of it.
C20Witness ==
    \E r1, r2 \in db :
        /\ r1.branch = 1
        /\ r2.branch = 2
        /\ task[r1.id].pushed = 1
        /\ \E c \in Calls :
              /\ cres[c] = Resolved(toPublicUrl(r1))
              /\ chash[c] = r1.hash
              /\ \A t \in Calls : c \notin waitersOf(t)

\* the head of the queue is a task that is larger than a whole branch
oversizedHead == taskQueue # <<>> /\ TaskSize(Head(taskQueue)) > maxBranchSize

\* C21, in every step taken with an oversized head: the queue after the step
\* is the queue before it, with at most new tasks behind, so the head stays
\* the head and no task behind it is drained; no waiter of a queued task has
\* an outcome.
C21Step ==
    oversizedHead =>
        /\ Len(taskQueue') >= Len(taskQueue)
        /\ SubSeq(taskQueue', 1, Len(taskQueue)) = taskQueue
        /\ \A t \in Range(taskQueue') :
              /\ task'[t].branch = 0
              /\ \A c \in Range(task'[t].resolvers) : cres'[c] = NoResult

\* C21: a task larger than maxBranchSize at the head of the queue stays there
\* for good and keeps every task behind it from being drained or settled.
C21Theorem == [][C21Step]_vars

\* C21's case: the loop has gone through an iteration and is in the next
\* one with an oversized task at the head and a task that would fit a branch
\* behind it.
C21Witness ==
    /\ oversizedHead
    /\ Len(taskQueue) >= 2
    /\ TaskSize(taskQueue[2]) <= maxBranchSize
    /\ nconn = 1
    /\ ~failed
    /\ head = 2
    /\ lastPush = 1
    /\ lpc[1] \in {"get1", "agg", "co1"}

\* C22: in every state, every queued task is the index entry of its hash, no
\* two queued tasks have the same hash, and every index entry is a queued
\* task or a task of a batch that is being processed.
C22Theorem ==
    /\ \A t \in Range(taskQueue) : taskMap[task[t].hash] = t
    /\ \A i, j \in 1..Len(taskQueue) :
          i # j => task[taskQueue[i]].hash # task[taskQueue[j]].hash
    /\ \A h \in Hashes : taskMap[h] # 0 => taskMap[h] \in liveTasks

\* C22's case: the index has an entry for a task in flight and one for a
\* queued task, and the entry of a settled task is gone.
C22Witness ==
    \E h1, h2, h3 \in Hashes :
        /\ taskMap[h1] \in inFlight
        /\ taskMap[h2] \in Range(taskQueue)
        /\ taskMap[h3] = 0
        /\ \E t \in Calls : task[t].hash = h3 /\ task[t].pushed # 0

\* the tasks whose waiters are still to be settled: queued, or in a batch
\* that has been neither resolved nor rejected
pendingTasks ==
    Range(taskQueue) \cup UNION {Range(ltasks[l]) : l \in {k \in Loops : unsettled(k)}}

\* C23, in every state: a call that createTask has attached to a Task and
\* that has no outcome is a waiter of a task that is still to be settled.
C23Inv ==
    \A c \in Calls :
        cpc[c] = "waiting" => \E t \in pendingTasks : c \in waitersOf(t)

\* C23, in every step: an outcome, once there, stays.
C23Once == \A c \in Calls : cres[c] # NoResult => cres'[c] = cres[c]

\* C23: no waiter is lost, every attached waiter is settled once with its
\* Task, and none is left pending by attaching between the rejection of a
\* batch and the removal of its index entries.
C23Claim == []C23Inv /\ [][C23Once]_vars

\* the positions of a loop inside checkout()
InCheckout == {"get1", "get2", "agg", "co1", "co2"}

\* C24, in every step: when mainLoop ends inside checkout(), no task has been
\* drained and the queue, the index, the Tasks with their waiters, the rows
\* and every call's outcome are as before; at the next while test with
\* isActive true and tasks queued, mainLoop goes to checkout() again.
C24Step ==
    \A l \in Loops :
        /\ (lpc[l] \in InCheckout /\ lpc'[l] = "while") =>
              /\ ltasks[l] = <<>> /\ ltasks'[l] = <<>>
              /\ UNCHANGED <<taskQueue, taskMap, task, db, cres, cpc>>
        /\ (lpc[l] = "while" /\ lpc'[l] # "while" /\ isActive /\ taskQueue # <<>>) =>
              lpc'[l] = "get1"

\* C24, in every state: a loop inside checkout() holds no drained task.
C24Inv == \A l \in Loops : lpc[l] \in InCheckout => ltasks[l] = <<>>

\* C24: a failed checkout ends the iteration with nothing changed and nobody
\* settled, and the next iteration takes the queue up again.
C24Theorem == []C24Inv /\ [][C24Step]_vars

\* C24's case: the only failure so far was one inside checkout(), of the one
\* loop there is, and that loop has drained the queued task in a later
\* iteration.
C24Witness ==
    /\ nconn = 1
    /\ failed
    /\ \A c \in Calls : cres[c] = NoResult
    /\ lpc[1] = "move"

\* task t is queued, and neither it nor a task before it in the queue is
\* larger than a branch
fitsAhead(t) ==
    \E i \in 1..Len(taskQueue) :
        /\ taskQueue[i] = t
        /\ \A j \in 1..i : TaskSize(taskQueue[j]) <= maxBranchSize

\* a step in which a checkout() of a loop throws
checkoutThrows == \E l \in Loops : CheckoutFails(l) \/ CheckoutRmFails(l)

\* call c is attached to a Task that was queued behind nothing larger than a
\* branch, and has no outcome
awaiting(c) ==
    /\ isActive
    /\ cres[c] = NoResult
    /\ \E t \in Calls :
          /\ c \in waitersOf(t)
          /\ fitsAhead(t) \/ task[t].branch # 0

\* C25, first half: with the store active for good and checkout() from some
\* point on not throwing, every queued task with nothing larger than a branch
\* before it is drained in the end.
C25Drained ==
    <>[][~checkoutThrows]_vars =>
        \A t \in Calls : (isActive /\ fitsAhead(t)) ~> (task[t].branch # 0)

\* C25, second half: under the same conditions every call attached to such a
\* task gets its outcome, resolved or rejected, in the end.
C25Claim ==
    <>[][~checkoutThrows]_vars =>
        \A c \in Calls : awaiting(c) ~> (cres[c] # NoResult)

\* loop l is not inside mainLoop: not started, in initRepo, at the while test,
\* asleep on an empty queue, or over
betweenBatches(l) == lpc[l] \in {"none", "init", "while", "sleep", "stopped"}

\* C26, in every step taken after a 'disconnect' that no 'connect' follows: no
\* loop goes from outside a batch into checkout(), and when no loop is inside
\* a batch every queued task keeps its place in the queue and its index entry
\* and every call attached to it stays without an outcome.
C26Step ==
    (~appUp /\ ~appUp') =>
        /\ \A l \in Loops : betweenBatches(l) => lpc'[l] # "get1"
        /\ (\A l \in Loops : betweenBatches(l)) =>
              \A i \in 1..Len(taskQueue) :
                  LET t == taskQueue[i] IN
                  /\ Len(taskQueue') >= i /\ taskQueue'[i] = t
                  /\ taskMap'[task[t].hash] = t
                  /\ \A c \in waitersOf(t) : cres'[c] = NoResult

C26Claim == [][C26Step]_vars

====
